---- MODULE Spec2Model ----
(***************************************************************************)
(* Model of the Obsidian pronunciation downloader plugin (src/main.ts):    *)
(* ForvoAPI (URL construction, lookup, audio fetch), the orchestration     *)
(* PronunciationDownloader.downloadPronunciationWithLanguage, the ribbon   *)
(* and palette triggers, the language prompt and the settings tab.         *)
(*                                                                         *)
(* Strings are sequences of tokens and string concatenation is \o, so a    *)
(* template literal `${a}/${b}` is  a \o <<"/">> \o b.  An optional value  *)
(* (a field that may be undefined) is a set: {} when absent, {v} when      *)
(* present.                                                                *)
(***************************************************************************)
EXTENDS Integers, Sequences, FiniteSets, TLC

VARIABLES
    settings,     \* this.settings : [apiKey, downloadPath]
    forvoApi,     \* this.forvoApi : [apiKey] (private field of ForvoAPI)
    modals,       \* the LanguageSelectionModal objects created so far
    inv,          \* the invocations of downloadPronunciationWithLanguage
    vault,        \* app.vault : set of [path, data]
    writes,       \* order in which createBinary calls took effect
    uiNotices,    \* Notices shown by the ribbon / command callbacks
    triggers,     \* what each ribbon / command activation read as selection
    query,        \* arguments of a stand-alone searchWord call
    built         \* the URL that call requested ({} before the call)

vars == <<settings, forvoApi, modals, inv, vault,
          writes, uiNotices, triggers, query, built>>

(***************************************************************************)
(* Bounds of the model.                                                    *)
(***************************************************************************)
MaxInv == 2        \* button clicks (invocations) explored
MaxTriggers == 1   \* ribbon / command activations explored

(***************************************************************************)
(* Optional values and strings.                                            *)
(***************************************************************************)
Absent == {}

Some(v) == {v}

Get(o) == CHOOSE v \in o : TRUE

\* JavaScript truthiness of an optional string: undefined and "" are falsy.
TruthyStr(o) == o # {} /\ Get(o) # <<>>

\* JavaScript truthiness of an optional number: undefined and 0 are falsy.
TruthyNum(o) == o # {} /\ Get(o) # 0

Digit == <<"0", "1", "2", "3", "4", "5", "6", "7", "8", "9">>

\* `${n}` for a non-negative integer n.
RECURSIVE ToStr(_)
ToStr(n) ==
    IF n < 10 THEN <<Digit[n + 1]>>
    ELSE ToStr(n \div 10) \o <<Digit[(n % 10) + 1]>>

\* encodeURIComponent on one character: unreserved characters are kept,
\* the others are percent-encoded.
EncodeChar(c) ==
    CASE c = " " -> "%20"
      [] c = "/" -> "%2F"
      [] c = "?" -> "%3F"
      [] OTHER -> c

encodeURIComponent(s) == [k \in 1..Len(s) |-> EncodeChar(s[k])]

(***************************************************************************)
(* ForvoAPI.searchWord, lines 85-96: the URL.                              *)
(***************************************************************************)
baseUrl == <<"https://apifree.forvo.com">>

NoOptions ==
    [language |-> Absent, country |-> Absent, username |-> Absent,
     sex |-> Absent, rate |-> Absent, order |-> Absent, limit |-> Absent]

SearchWordUrl(apiKey, word, options) ==
    baseUrl \o <<"/action/word-pronunciations/format/json/word/">>
      \o encodeURIComponent(word)
      \o (IF TruthyStr(options.language)
            THEN <<"/id_lang_speak/">> \o Get(options.language) ELSE <<>>)
      \o (IF TruthyStr(options.username)
            THEN <<"/username/">> \o Get(options.username) ELSE <<>>)
      \o (IF TruthyStr(options.sex)
            THEN <<"/sex/">> \o Get(options.sex) ELSE <<>>)
      \o (IF TruthyNum(options.rate)
            THEN <<"/rate/">> \o ToStr(Get(options.rate)) ELSE <<>>)
      \o (IF TruthyStr(options.order)
            THEN <<"/order/">> \o Get(options.order) ELSE <<>>)
      \o (IF TruthyNum(options.limit)
            THEN <<"/limit/">> \o ToStr(Get(options.limit)) ELSE <<>>)
      \o <<"/key/">> \o apiKey

(***************************************************************************)
(* Values the environment (user, lookup service, host) can supply.         *)
(***************************************************************************)
ApiKeys == {<<>>, <<"key1">>}

DownloadPaths == {<<"pronunciations">>, <<"audio">>}

Words == {<<"h", "i">>}

LanguageCodes == {<<"39">>, <<"76">>, <<"186">>}

Items ==
    {[id |-> 7, pathmp3 |-> <<"https://audio/7.mp3">>],
     [id |-> 12, pathmp3 |-> <<"https://audio/12.mp3">>]}

Item(id) == CHOOSE it \in Items : it.id = id

\* response.json of the lookup: an object with optional error and items.
Envelopes ==
    {[error |-> Some(<<"Limit Reached">>), items |-> Absent],
     [error |-> Some(<<"Limit Reached">>), items |-> Some(<<Item(7)>>)],
     [error |-> Absent, items |-> Absent],
     [error |-> Absent, items |-> Some(<<>>)],
     [error |-> Absent, items |-> Some(<<Item(7), Item(12)>>)],
     [error |-> Some(<<>>), items |-> Some(<<Item(12), Item(7)>>)]}

TransportMessages == {<<"Request failed, status 500">>}

HostMessages == {<<"host error">>}

(***************************************************************************)
(* Texts.                                                                  *)
(***************************************************************************)
SelectNotice == <<"Please select a word to download its pronunciation">>

\* line 154
SuccessNotice(word) == <<"Downloaded pronunciation for \"">> \o word \o <<"\"">>

\* Variant of line 156 that throws instead, so that line 160 reports it.
NotFoundNotice_AsFailure(word) ==
    <<"Failed to download pronunciation: ">>
      \o <<"No pronunciation found for \"">> \o word \o <<"\"">>

\* line 156
NotFoundNotice(word) == <<"No pronunciation found for \"">> \o word \o <<"\"">>

\* line 160
FailureNotice(message) == <<"Failed to download pronunciation: ">> \o message

\* Variant of line 106 that drops the service's message.
ApiErrorMessage_NoDetail(error) == <<"Forvo API error">>

\* line 106
ApiErrorMessage(error) == <<"Forvo API error: ">> \o error

\* line 112
SearchWordError(message) == <<"Failed to fetch pronunciations: ">> \o message

\* line 125
DownloadError(message) == <<"Failed to download pronunciation: ">> \o message

(***************************************************************************)
(* downloadPronunciationWithLanguage, lines 139-151: pure parts.           *)
(***************************************************************************)
\* line 105: if (data.error)
HasError(data) == TruthyStr(data.error)

\* line 139: result.items && result.items.length > 0
HasItems(result) == result.items # Absent /\ Len(Get(result.items)) > 0

\* Variant of line 140 that takes the last item.
Pronunciation_Last(result) == Get(result.items)[Len(Get(result.items))]

\* line 140: result.items[0]
Pronunciation(result) == Get(result.items)[1]

\* Variant of line 144 that leaves the download path out.
FileName_NoFolder(downloadPath, word, id) ==
    word \o <<"_">> \o ToStr(id) \o <<".mp3">>

\* Variant of line 144 that leaves the result identifier out.
FileName_NoId(downloadPath, word, id) ==
    downloadPath \o <<"/">> \o word \o <<".mp3">>

\* line 144
FileName(downloadPath, word, id) ==
    downloadPath \o <<"/">> \o word \o <<"_">> \o ToStr(id) \o <<".mp3">>

\* line 150
FileLink(fileName) == <<"![[">> \o fileName \o <<"]]">>

\* line 151: the text handed to editor.replaceRange
EmbedText(fileName) == <<"\n">> \o FileLink(fileName) \o <<"\n">>

\* app.vault.createBinary taking effect: the file at path holds data.
CreateBinary(files, path, data) ==
    {f \in files : f.path # path} \cup {[path |-> path, data |-> data]}

(***************************************************************************)
(* State.                                                                  *)
(***************************************************************************)
Invocations == 1..MaxInv

\* url is the lookup request in flight and modal the prompt whose button
\* handler awaits the invocation (0 when none); the other fields are the
\* locals of the invocation and what it did.  audioData is the buffer returned to this
\* invocation's audio request, named by the invocation that received it.
IdleInvocation ==
    [pc |-> "idle", modal |-> 0, word |-> <<>>, editor |-> FALSE,
     url |-> Absent, result |-> Absent, audioUrl |-> Absent,
     audioData |-> Absent, fileName |-> Absent, inserted |-> Absent,
     notices |-> <<>>]

NoQuery == [apiKey |-> <<>>, word |-> <<>>, options |-> NoOptions]

\* lines 8-11
DEFAULT_SETTINGS == [apiKey |-> <<>>, downloadPath |-> <<"pronunciations">>]

\* The state after onload (lines 164-167, 204-206) of a plugin that has no
\* stored data yet: the settings are the defaults, and the ForvoAPI object
\* was constructed from the key the settings held at that time.
Init ==
    /\ settings = DEFAULT_SETTINGS
    /\ forvoApi = [apiKey |-> settings.apiKey]
    /\ modals = <<>>
    /\ inv = [i \in Invocations |-> IdleInvocation]
    /\ vault = {}
    /\ writes = <<>>
    /\ uiNotices = <<>>
    /\ triggers = <<>>
    /\ query = NoQuery
    /\ built = Absent

(***************************************************************************)
(* The settings tab.                                                       *)
(***************************************************************************)
\* lines 232-235: onChange of the API key field.
SetApiKey(value) ==
    /\ value # settings.apiKey
    /\ settings' = [settings EXCEPT !.apiKey = value]
    /\ UNCHANGED <<forvoApi, modals, inv, vault, writes, uiNotices, triggers,
                   query, built>>

\* lines 243-246: onChange of the download path field.
SetDownloadPath(value) ==
    /\ value # settings.downloadPath
    /\ settings' = [settings EXCEPT !.downloadPath = value]
    /\ UNCHANGED <<forvoApi, modals, inv, vault, writes, uiNotices, triggers,
                   query, built>>

(***************************************************************************)
(* The ribbon action and the palette command.  What an activation reads    *)
(* from the host is its input: Absent when there is no active markdown     *)
(* view, else the editor's selection ("" when nothing is selected).        *)
(***************************************************************************)
Selections == {Some(w) : w \in Words \cup {<<>>}}

NewModal(word, editor) == [word |-> word, editor |-> editor, open |-> TRUE]

\* Variant of lines 174-178 without the check of the selection.
OnSelection_NoCheck(sel) ==
    /\ modals' = Append(modals, NewModal(sel, TRUE))
    /\ UNCHANGED uiNotices

\* lines 174-178 and 188-192: if (selection) open the prompt, else notify.
OnSelection(sel) ==
    IF sel # <<>>
    THEN /\ modals' = Append(modals, NewModal(sel, TRUE))
         /\ UNCHANGED uiNotices
    ELSE /\ uiNotices' = Append(uiNotices, SelectNotice)
         /\ UNCHANGED modals

\* lines 170-180
RibbonClick(read) ==
    /\ Len(triggers) < MaxTriggers
    /\ triggers' = Append(triggers, read)
    /\ IF read # Absent
       THEN OnSelection(Get(read))
       ELSE UNCHANGED <<modals, uiNotices>>
    /\ UNCHANGED <<settings, forvoApi, inv, vault, writes, query, built>>

\* lines 183-194: an editorCallback command runs only in an editor.
CommandRun(read) ==
    /\ Len(triggers) < MaxTriggers
    /\ read # Absent
    /\ triggers' = Append(triggers, read)
    /\ OnSelection(Get(read))
    /\ UNCHANGED <<settings, forvoApi, inv, vault, writes, query, built>>

(***************************************************************************)
(* downloadPronunciationWithLanguage (lines 134-162), one action per       *)
(* resumption: it suspends at requestUrl of searchWord, at requestUrl of   *)
(* downloadPronunciation and at vault.createBinary.                        *)
(***************************************************************************)
FreeInvocation(i) ==
    /\ inv[i].pc = "idle"
    /\ \A j \in Invocations : j < i => inv[j].pc # "idle"

\* The invocation returns: the button handler resumes and closes its prompt
\* (line 42).
Close(ms, m) == [ms EXCEPT ![m].open = FALSE]

\* lines 154, 156, 160: new Notice(text), after which the invocation returns.
Finished(r, text) ==
    [r EXCEPT !.pc = "done", !.url = Absent, !.modal = 0,
              !.notices = Append(@, text)]

\* line 136: the options downloadPronunciationWithLanguage passes.
LanguageOption(code) == [NoOptions EXCEPT !.language = Some(code)]

\* The key searchWord appends (line 96): this.apiKey of the ForvoAPI object.
RequestKey == forvoApi.apiKey

\* lines 40-41 and 136, 85-102: a language button is clicked; the invocation
\* builds the lookup URL and issues the request.
ClickLanguage(m, code) ==
    /\ m \in 1..Len(modals)
    /\ modals[m].open
    /\ \E i \in Invocations :
        /\ FreeInvocation(i)
        /\ inv' = [inv EXCEPT ![i] =
              [IdleInvocation EXCEPT
                 !.pc = "searchWord",
                 !.modal = m,
                 !.word = modals[m].word,
                 !.editor = modals[m].editor,
                 !.url = Some(SearchWordUrl(RequestKey, modals[m].word,
                                            LanguageOption(code)))]]
    /\ UNCHANGED <<settings, forvoApi, modals, vault, writes, uiNotices,
                   triggers, query, built>>

\* lines 99-102 throw, 110-112, 158-160: the lookup request fails.
SearchWordFails(i, message) ==
    /\ inv[i].pc = "searchWord"
    /\ inv' = [inv EXCEPT ![i] =
          Finished(@, FailureNotice(SearchWordError(message)))]
    /\ modals' = Close(modals, inv[i].modal)
    /\ UNCHANGED <<settings, forvoApi, vault, writes, uiNotices, triggers,
                   query, built>>

\* lines 104-109 and 139-141, 155-160: the lookup request is answered.
SearchWordResponds(i, data) ==
    /\ inv[i].pc = "searchWord"
    /\ IF HasError(data)
       THEN /\ inv' = [inv EXCEPT ![i] =
                  Finished([@ EXCEPT !.result = Some(data)],
                     FailureNotice(SearchWordError(
                        ApiErrorMessage(Get(data.error)))))]
            /\ modals' = Close(modals, inv[i].modal)
       ELSE IF HasItems(data)
       THEN /\ inv' = [inv EXCEPT ![i] =
                  [@ EXCEPT !.pc = "downloadPronunciation",
                            !.url = Absent,
                            !.result = Some(data),
                            !.audioUrl = Some(Pronunciation(data).pathmp3)]]
            /\ UNCHANGED modals
       ELSE /\ inv' = [inv EXCEPT ![i] =
                  Finished([@ EXCEPT !.result = Some(data)],
                     NotFoundNotice(inv[i].word))]
            /\ modals' = Close(modals, inv[i].modal)
    /\ UNCHANGED <<settings, forvoApi, vault, writes, uiNotices, triggers,
                   query, built>>

\* Variant of lines 123-125 that swallows the failure: the invocation goes
\* on to write a file and report success.
DownloadFails_Swallowed(i, message) ==
    /\ inv[i].pc = "downloadPronunciation"
    /\ vault' = CreateBinary(vault,
                   FileName(settings.downloadPath, inv[i].word,
                            Pronunciation(Get(inv[i].result)).id), i)
    /\ writes' = Append(writes, i)
    /\ inv' = [inv EXCEPT ![i] = Finished(@, SuccessNotice(inv[i].word))]
    /\ modals' = Close(modals, inv[i].modal)
    /\ UNCHANGED <<settings, forvoApi, uiNotices, triggers, query, built>>

\* lines 118-121 throw, 123-125, 158-160: the audio request fails.
DownloadFails(i, message) ==
    /\ inv[i].pc = "downloadPronunciation"
    /\ inv' = [inv EXCEPT ![i] =
          Finished(@, FailureNotice(DownloadError(message)))]
    /\ modals' = Close(modals, inv[i].modal)
    /\ UNCHANGED <<settings, forvoApi, vault, writes, uiNotices, triggers,
                   query, built>>

\* lines 122, 141-145: the audio bytes arrive; the file name is derived from
\* the current settings and the write is issued.
DownloadResponds(i) ==
    /\ inv[i].pc = "downloadPronunciation"
    /\ inv' = [inv EXCEPT ![i] =
          [@ EXCEPT !.pc = "createBinary",
                    !.audioData = Some(i),
                    !.fileName = Some(FileName(settings.downloadPath,
                                    inv[i].word,
                                    Pronunciation(Get(inv[i].result)).id))]]
    /\ UNCHANGED <<settings, forvoApi, modals, vault, writes, uiNotices,
                   triggers, query, built>>

\* line 145 rejects, 158-160.
CreateBinaryFails(i, message) ==
    /\ inv[i].pc = "createBinary"
    /\ inv' = [inv EXCEPT ![i] = Finished(@, FailureNotice(message))]
    /\ modals' = Close(modals, inv[i].modal)
    /\ UNCHANGED <<settings, forvoApi, vault, writes, uiNotices, triggers,
                   query, built>>

\* lines 148-152: if (editor) insert the embed text at the cursor.
Inserted(editor, fileName) ==
    IF editor THEN Some(EmbedText(fileName)) ELSE Absent

\* lines 145-154: the write succeeded; the embed is inserted and success is
\* reported.
CreateBinaryResolves(i) ==
    /\ inv[i].pc = "createBinary"
    /\ vault' = CreateBinary(vault, Get(inv[i].fileName), Get(inv[i].audioData))
    /\ writes' = Append(writes, i)
    /\ inv' = [inv EXCEPT ![i] =
          Finished([@ EXCEPT !.inserted =
                       Inserted(inv[i].editor, Get(inv[i].fileName))],
             SuccessNotice(inv[i].word))]
    /\ modals' = Close(modals, inv[i].modal)
    /\ UNCHANGED <<settings, forvoApi, uiNotices, triggers, query, built>>

\* Variant of lines 148-160 in which the success notice is shown even after
\* the failure was reported.
InsertFails_ThenSuccess(i, message) ==
    /\ inv[i].pc = "createBinary"
    /\ inv[i].editor
    /\ vault' = CreateBinary(vault, Get(inv[i].fileName), Get(inv[i].audioData))
    /\ writes' = Append(writes, i)
    /\ inv' = [inv EXCEPT ![i] =
          Finished(Finished(@, FailureNotice(message)),
                   SuccessNotice(inv[i].word))]
    /\ modals' = Close(modals, inv[i].modal)
    /\ UNCHANGED <<settings, forvoApi, uiNotices, triggers, query, built>>

\* lines 145-151 with editor.getCursor / editor.replaceRange throwing,
\* 158-160: the write succeeded, the insertion did not.
InsertFails(i, message) ==
    /\ inv[i].pc = "createBinary"
    /\ inv[i].editor
    /\ vault' = CreateBinary(vault, Get(inv[i].fileName), Get(inv[i].audioData))
    /\ writes' = Append(writes, i)
    /\ inv' = [inv EXCEPT ![i] = Finished(@, FailureNotice(message))]
    /\ modals' = Close(modals, inv[i].modal)
    /\ UNCHANGED <<settings, forvoApi, uiNotices, triggers, query, built>>

(***************************************************************************)
(* searchWord called on its own with arbitrary options (lines 76-102).     *)
(***************************************************************************)
QueryWords == {<<"h", "i">>, <<"a", " ", "/">>}

\* Every field is absent or holds a (truthy) value of its type.
QueryOptions ==
    [language : {Absent, Some(<<"39">>)},
     country : {Absent, Some(<<"usa">>)},
     username : {Absent, Some(<<"bob">>)},
     sex : {Absent, Some(<<"f">>)},
     rate : {Absent, Some(3)},
     order : {Absent, Some(<<"rate-desc">>)},
     limit : {Absent, Some(10)}]

Queries == [apiKey : ApiKeys, word : QueryWords, options : QueryOptions]

InitUrl ==
    /\ settings = DEFAULT_SETTINGS
    /\ forvoApi = [apiKey |-> settings.apiKey]
    /\ modals = <<>>
    /\ inv = [i \in Invocations |-> IdleInvocation]
    /\ vault = {}
    /\ writes = <<>>
    /\ uiNotices = <<>>
    /\ triggers = <<>>
    /\ query \in Queries
    /\ built = Absent

\* lines 85-102: the URL is built and requested.
SearchWordCall ==
    /\ built = Absent
    /\ built' = Some(SearchWordUrl(query.apiKey, query.word, query.options))
    /\ UNCHANGED <<settings, forvoApi, modals, inv, vault, writes, uiNotices,
                   triggers, query>>

NextUrl == SearchWordCall

SpecUrl == InitUrl /\ [][NextUrl]_vars

Next ==
    \/ \E value \in ApiKeys : SetApiKey(value)
    \/ \E value \in DownloadPaths : SetDownloadPath(value)
    \/ \E read \in Selections \cup {Absent} : RibbonClick(read)
    \/ \E read \in Selections : CommandRun(read)
    \/ \E m \in 1..MaxTriggers, code \in LanguageCodes : ClickLanguage(m, code)
    \/ \E i \in Invocations, message \in TransportMessages :
          SearchWordFails(i, message)
    \/ \E i \in Invocations, data \in Envelopes : SearchWordResponds(i, data)
    \/ \E i \in Invocations, message \in TransportMessages :
          DownloadFails(i, message)
    \/ \E i \in Invocations : DownloadResponds(i)
    \/ \E i \in Invocations, message \in HostMessages :
          CreateBinaryFails(i, message)
    \/ \E i \in Invocations : CreateBinaryResolves(i)
    \/ \E i \in Invocations, message \in HostMessages : InsertFails(i, message)

Spec == Init /\ [][Next]_vars

(***************************************************************************)
(* Vocabulary of the properties.                                           *)
(***************************************************************************)
Range(q) == {q[k] : k \in 1..Len(q)}

StartsWith(text, prefix) ==
    Len(text) >= Len(prefix) /\ SubSeq(text, 1, Len(prefix)) = prefix

EndsWith(text, suffix) ==
    /\ Len(text) >= Len(suffix)
    /\ SubSeq(text, Len(text) - Len(suffix) + 1, Len(text)) = suffix

Contains(text, part) ==
    \E k \in 1..(Len(text) - Len(part) + 1) :
        SubSeq(text, k, k + Len(part) - 1) = part

IsFailureNotice(text) ==
    StartsWith(text, <<"Failed to download pronunciation: ">>)

IsSuccessNotice(text, word) ==
    text = <<"Downloaded pronunciation for \"">> \o word \o <<"\"">>

IsNotFoundNotice(text, word) ==
    text = <<"No pronunciation found for \"">> \o word \o <<"\"">>

\* Invocation i performed no audio request, no storage write and no embed.
NothingFetchedOrStored(i) ==
    /\ inv[i].audioUrl = Absent
    /\ inv[i].audioData = Absent
    /\ inv[i].fileName = Absent
    /\ inv[i].inserted = Absent
    /\ i \notin Range(writes)
    /\ \A f \in vault : f.data # i

\* The lookup of invocation i was answered with a body that is no error.
LookupSucceeded(i) ==
    /\ inv[i].result # Absent
    /\ LET e == Get(inv[i].result).error IN e = Absent \/ Get(e) = <<>>

ItemsOf(i) ==
    LET it == Get(inv[i].result).items IN IF it = Absent THEN <<>> ELSE Get(it)

(***************************************************************************)
(* C1.  For every term and every combination of present and absent         *)
(* options, the requested URL is the base, the encoded term, then exactly  *)
(* one /name/value segment per present field of language, country,         *)
(* username, sex, rate, order, limit in that order, then /key/<apiKey>.    *)
(***************************************************************************)
SegmentStr(name, o) == IF o = Absent THEN <<>> ELSE <<name>> \o Get(o)

SegmentNum(name, o) == IF o = Absent THEN <<>> ELSE <<name>> \o ToStr(Get(o))

ExpectedSegments(o) ==
    SegmentStr("/id_lang_speak/", o.language)
      \o SegmentStr("/country/", o.country)
      \o SegmentStr("/username/", o.username)
      \o SegmentStr("/sex/", o.sex)
      \o SegmentNum("/rate/", o.rate)
      \o SegmentStr("/order/", o.order)
      \o SegmentNum("/limit/", o.limit)

C1_UrlHasEveryPresentField ==
    built # Absent =>
        Get(built) =
            <<"https://apifree.forvo.com",
              "/action/word-pronunciations/format/json/word/">>
              \o encodeURIComponent(query.word)
              \o ExpectedSegments(query.options)
              \o <<"/key/">> \o query.apiKey

(***************************************************************************)
(* C8.  The key that ends each lookup URL is the API key stored in the     *)
(* settings when the invocation is made, and the base path of the file     *)
(* name is the download path configured when the name is derived.          *)
(***************************************************************************)
C8_KeyIsCurrentSetting ==
    [][\A i \in Invocations :
          /\ (inv[i].pc = "idle" /\ inv'[i].pc = "searchWord") =>
                EndsWith(Get(inv'[i].url), <<"/key/">> \o settings.apiKey)
          /\ (inv[i].pc = "downloadPronunciation"
                /\ inv'[i].pc = "createBinary") =>
                StartsWith(Get(inv'[i].fileName),
                           settings.downloadPath \o <<"/">>)]_vars

(***************************************************************************)
(* C2.  As claimed: whenever the lookup response body carries an error     *)
(* field, the invocation ends with one failure notice that contains the    *)
(* service's message as received, and it performs no audio request, no     *)
(* storage write and no embed insertion.                                   *)
(***************************************************************************)
ErrorReported(i) ==
    /\ inv[i].pc = "done"
    /\ Len(inv[i].notices) = 1
    /\ IsFailureNotice(inv[i].notices[1])
    /\ Contains(inv[i].notices[1], Get(Get(inv[i].result).error))
    /\ NothingFetchedOrStored(i)

C2_AnyErrorFieldIsReported ==
    \A i \in Invocations :
        (inv[i].result # Absent /\ Get(inv[i].result).error # Absent)
            => ErrorReported(i)

(***************************************************************************)
(* C2, amended.  Whenever the lookup response body carries a non-empty     *)
(* error field, the invocation ends with one failure notice that contains  *)
(* the service's message as received, and it performs no audio request,    *)
(* no storage write and no embed insertion.                                *)
(***************************************************************************)
C2_NonEmptyErrorIsReported ==
    \A i \in Invocations :
        (/\ inv[i].result # Absent
         /\ Get(inv[i].result).error # Absent
         /\ Get(Get(inv[i].result).error) # <<>>)
            => ErrorReported(i)

C2_Witness ==
    \E i \in Invocations :
        /\ inv[i].pc = "done"
        /\ inv[i].result # Absent
        /\ Get(inv[i].result).error = Some(<<"Limit Reached">>)
        /\ Get(inv[i].result).items # Absent

(***************************************************************************)
(* C3.  Whenever a lookup succeeds with an empty or absent item list, the  *)
(* invocation ends with exactly the notice `No pronunciation found for     *)
(* "<word>"`, and performs no audio request, no storage write and no       *)
(* embed insertion.                                                        *)
(***************************************************************************)
C3_EmptyListIsNotFound ==
    \A i \in Invocations :
        (LookupSucceeded(i) /\ ItemsOf(i) = <<>>) =>
            /\ inv[i].pc = "done"
            /\ Len(inv[i].notices) = 1
            /\ IsNotFoundNotice(inv[i].notices[1], inv[i].word)
            /\ NothingFetchedOrStored(i)

C3_Witness ==
    \E i \in Invocations :
        /\ LookupSucceeded(i)
        /\ Get(inv[i].result).items = Absent
        /\ inv[i].pc = "done"
        /\ inv[i].word # <<>>

(***************************************************************************)
(* C4.  Whenever the lookup succeeded with an item but the audio request   *)
(* failed, the invocation ends with one failure notice and wrote nothing,  *)
(* inserted nothing and reported no success; and an invocation derives a   *)
(* file name or writes only after its lookup and its audio request both    *)
(* succeeded.                                                              *)
(***************************************************************************)
AudioFetchFailed(i) ==
    inv[i].pc = "done" /\ inv[i].audioUrl # Absent /\ inv[i].audioData = Absent

C4_NoWriteWithoutAudio ==
    \A i \in Invocations :
        /\ AudioFetchFailed(i) =>
              /\ Len(inv[i].notices) = 1
              /\ IsFailureNotice(inv[i].notices[1])
              /\ inv[i].fileName = Absent
              /\ inv[i].inserted = Absent
              /\ i \notin Range(writes)
              /\ \A f \in vault : f.data # i
        /\ (i \in Range(writes) \/ inv[i].fileName # Absent
              \/ \E f \in vault : f.data = i) =>
              /\ LookupSucceeded(i)
              /\ Len(ItemsOf(i)) > 0
              /\ inv[i].audioData # Absent

C4_Witness ==
    \E i \in Invocations :
        /\ AudioFetchFailed(i)
        /\ LookupSucceeded(i)
        /\ Len(ItemsOf(i)) > 0

(***************************************************************************)
(* C5.  For every lookup response with a non-empty item list, the media    *)
(* URL of the audio request and the identifier in the file name are those  *)
(* of items[0], whatever the later items are.                              *)
(***************************************************************************)
C5_FirstItemOnly ==
    \A i \in Invocations :
        (LookupSucceeded(i) /\ Len(ItemsOf(i)) > 0) =>
            /\ inv[i].audioUrl = Some(ItemsOf(i)[1].pathmp3)
            /\ inv[i].fileName # Absent =>
                  EndsWith(Get(inv[i].fileName),
                      inv[i].word \o <<"_">> \o ToStr(ItemsOf(i)[1].id)
                        \o <<".mp3">>)
            /\ \A k \in 1..Len(inv[i].notices) :
                  \/ IsSuccessNotice(inv[i].notices[k], inv[i].word)
                  \/ IsFailureNotice(inv[i].notices[k])

C5_Witness ==
    \E i \in Invocations :
        /\ LookupSucceeded(i)
        /\ Len(ItemsOf(i)) = 2
        /\ ItemsOf(i)[2].id # ItemsOf(i)[1].id
        /\ i \in Range(writes)
        /\ inv[i].pc = "done"

(***************************************************************************)
(* C6.  The path handed to the storage write is exactly                    *)
(* <configured base path>/<word>_<result id>.mp3, with the base path       *)
(* configured when the name is derived; the file written is at that path;  *)
(* and the text inserted in the editor is newline, ![[path]], newline for  *)
(* the identical path.                                                     *)
(***************************************************************************)
C6_PathAndEmbedAgree ==
    /\ [][\A i \in Invocations :
            (inv[i].pc = "downloadPronunciation"
               /\ inv'[i].pc = "createBinary") =>
                inv'[i].fileName =
                    Some(settings.downloadPath \o <<"/">> \o inv[i].word
                           \o <<"_">> \o ToStr(ItemsOf(i)[1].id)
                           \o <<".mp3">>)]_vars
    /\ [](\A i \in Invocations :
            /\ i \in Range(writes) =>
                  \E f \in vault : f.path = Get(inv[i].fileName)
            /\ inv[i].inserted # Absent =>
                  Get(inv[i].inserted) =
                      <<"\n", "![[">> \o Get(inv[i].fileName) \o <<"]]", "\n">>
            /\ (inv[i].pc = "done" /\ inv[i].editor
                  /\ IsSuccessNotice(inv[i].notices[1], inv[i].word)) =>
                  inv[i].inserted # Absent)

C6_Witness ==
    \E i \in Invocations :
        /\ inv[i].pc = "done"
        /\ inv[i].inserted # Absent
        /\ inv[i].fileName = Some(<<"audio", "/", "h", "i", "_", "1", "2", ".mp3">>)
        /\ \E f \in vault : f.path = Get(inv[i].fileName)

(***************************************************************************)
(* C7.  As claimed: whenever the ribbon action or the palette command is   *)
(* triggered while the selection is empty or missing, no prompt is         *)
(* opened, no request is issued and the notice asking to select a word is  *)
(* shown; and a lookup is only ever issued for a non-empty word.           *)
(***************************************************************************)
Activated == Len(triggers') = Len(triggers) + 1

LastRead == triggers'[Len(triggers')]

NothingSelected == LastRead = Absent \/ Get(LastRead) = <<>>

LookupOnlyForWords ==
    \A i \in Invocations : inv[i].pc # "idle" => inv[i].word # <<>>

C7_EmptySelectionAlwaysNotified ==
    /\ [][(Activated /\ NothingSelected) =>
            /\ modals' = modals
            /\ inv' = inv
            /\ uiNotices' = Append(uiNotices,
                 <<"Please select a word to download its pronunciation">>)]_vars
    /\ []LookupOnlyForWords

(***************************************************************************)
(* C7, amended.  Whenever the ribbon action or the palette command is      *)
(* triggered while the selection is empty or there is no active markdown   *)
(* view, no prompt is opened and no request is issued; the notice asking   *)
(* to select a word is shown when a markdown view is active, and nothing   *)
(* at all is shown when the ribbon action finds no active markdown view;   *)
(* and a lookup is only ever issued for a non-empty word.                  *)
(***************************************************************************)
C7_EmptySelectionOpensNothing ==
    /\ [][(Activated /\ NothingSelected) =>
            /\ modals' = modals
            /\ inv' = inv
            /\ uiNotices' =
                 IF LastRead = Absent THEN uiNotices
                 ELSE Append(uiNotices,
                   <<"Please select a word to download its pronunciation">>)]_vars
    /\ []LookupOnlyForWords

C7_Witness ==
    /\ triggers = <<Some(<<>>)>>
    /\ uiNotices = <<SelectNotice>>
    /\ modals = <<>>

(***************************************************************************)
(* C9.  Two invocations for the same word are not coordinated.  When both  *)
(* reported success: if their lookups returned different identifiers they  *)
(* wrote two different paths and a file exists at each; if the             *)
(* identifiers match and the download path was the same, they wrote the    *)
(* same path, one file exists there and it holds the data of the later     *)
(* write.                                                                  *)
(***************************************************************************)
Succeeded(i) ==
    /\ inv[i].pc = "done"
    /\ Len(inv[i].notices) = 1
    /\ IsSuccessNotice(inv[i].notices[1], inv[i].word)

FilesAt(path) == {f \in vault : f.path = path}

WritersOf(path) ==
    {k \in 1..Len(writes) : inv[writes[k]].fileName = Some(path)}

LastWriter(path) ==
    writes[CHOOSE k \in WritersOf(path) : \A l \in WritersOf(path) : l <= k]

SameFolder(i, j) ==
    \E base \in DownloadPaths :
        /\ StartsWith(Get(inv[i].fileName), base \o <<"/">>)
        /\ StartsWith(Get(inv[j].fileName), base \o <<"/">>)

EmbedFailed(i) ==
    /\ inv[i].pc = "done"
    /\ i \in Range(writes)
    /\ inv[i].editor
    /\ inv[i].inserted = Absent

C10_OneNoticeNoRollback ==
    \A i \in Invocations :
        /\ Len(inv[i].notices) = (IF inv[i].pc = "done" THEN 1 ELSE 0)
        /\ EmbedFailed(i) =>
              /\ IsFailureNotice(inv[i].notices[1])
              /\ ~IsSuccessNotice(inv[i].notices[1], inv[i].word)
              /\ FilesAt(Get(inv[i].fileName)) # {}
        /\ i \in Range(writes) => FilesAt(Get(inv[i].fileName)) # {}

C10_Witness == \E i \in Invocations : EmbedFailed(i)

====
